---------------------------- MODULE Spec2Model ----------------------------
(***************************************************************************)
(* Model of open_words/parse.py (class Parser): enclitic splitting,        *)
(* inflection enumeration, stem matching, match aggregation, reduction     *)
(* and ending reconstruction.                                              *)
(*                                                                         *)
(* Python strings are sequences of one-character strings, Python lists     *)
(* are sequences, Python dicts are functions (or, where the iteration      *)
(* order of the dict matters, sequences of key/value records).             *)
(***************************************************************************)
EXTENDS Integers, Sequences, FiniteSets, TLC

VARIABLES wordlist, stems, inflects, addons, uniques, wordkeys, result, arg, ret

vars == <<wordlist, stems, inflects, addons, uniques, wordkeys, result, arg, ret>>

tables == <<wordlist, stems, inflects, addons, uniques, wordkeys>>

(***************************************************************************)
(* Bounds of the model                                                     *)
(***************************************************************************)
\* nesting depth of _find_forms at which the interpreter gives up
MaxDepth == 4
\* class components range over 0..MaxClass when check_match is explored
MaxClass == 2
\* longest list of inflection groups handed to _check_stems on its own
MaxGroups == 2

(***************************************************************************)
(* String primitives used by the parser                                    *)
(***************************************************************************)
Letters == {"a", "b", "e", "i", "m", "n", "o", "q", "r", "s", "t", "u", "v", "x"}

\* str.isalpha(): non-empty and every character alphabetic
IsAlpha(s) == Len(s) > 0 /\ \A i \in 1..Len(s) : s[i] \in Letters

\* s.endswith(e)
EndsWith(s, e) == Len(e) <= Len(s) /\ SubSeq(s, Len(s) - Len(e) + 1, Len(s)) = e

\* s.startswith(p)
StartsWith(s, p) == Len(p) <= Len(s) /\ SubSeq(s, 1, Len(p)) = p

\* re.sub(e + "$", "", s) for an alphabetic e: drops e when s ends with it
StripSuffix(s, e) == IF EndsWith(s, e) THEN SubSeq(s, 1, Len(s) - Len(e)) ELSE s

\* re.sub("^" + p, "", s) for an alphabetic p: drops p when s starts with it
StripPrefix(s, p) == IF StartsWith(s, p) THEN SubSeq(s, Len(p) + 1, Len(s)) ELSE s

\* s[-k:] for 1 <= k <= len(s)
LastChars(s, k) == SubSeq(s, Len(s) - k + 1, Len(s))

\* s[:-k] for k >= 1 (empty when k >= len(s))
DropLast(s, k) == SubSeq(s, 1, Len(s) - k)

\* x[-1]
LastOf(x) == x[Len(x)]

Min(a, b) == IF a < b THEN a ELSE b

(***************************************************************************)
(* check_match: congruence of a stem and an inflection                     *)
(***************************************************************************)
\* the class test of the noun branch (line 144)
NounClassMatch(stem, infl) ==
    \/ infl.n = stem.n
    \/ (infl.n[1] = stem.n[1] /\ LastOf(infl.n) = 0)

\* the form test of the noun branch (line 145)
NounFormMatch(stem, infl) ==
    \/ LastOf(infl.form) = stem.form[5]
    \/ LastOf(infl.form) = "C"

check_match_NoFallThrough(stem, infl) ==
    IF infl.pos # stem.pos
    THEN infl.pos = "VPAR" /\ stem.pos = "V"
    ELSE IF stem.pos = "N"
         THEN NounClassMatch(stem, infl) /\ NounFormMatch(stem, infl)
         ELSE infl.n[1] = stem.n[1]

check_match(stem, infl) ==
    IF infl.pos # stem.pos
    THEN infl.pos = "VPAR" /\ stem.pos = "V"
    ELSE IF stem.pos = "N" /\ NounClassMatch(stem, infl)
         THEN NounFormMatch(stem, infl)
         ELSE infl.n[1] = stem.n[1]

(***************************************************************************)
(* The inflection table.  self.inflects is a dict keyed by str(length)     *)
(* whose values are dicts keyed by ending whose values are lists of        *)
(* inflections; it is modelled as the sequence of its (length, ending)     *)
(* groups in iteration order.                                              *)
(***************************************************************************)
RECURSIVE FlattenFrom(_, _)
FlattenFrom(tbl, g) ==
    IF g > Len(tbl) THEN <<>> ELSE tbl[g].infls \o FlattenFrom(tbl, g + 1)

\* every inflection in the order of the three nested loops of lines 254-256
FlatInfls(tbl) == FlattenFrom(tbl, 1)

\* number of keys of self.inflects (iterations of "for inf in self.inflects")
NumKeys(tbl) == Cardinality({tbl[g].len : g \in DOMAIN tbl})

\* str(length) in self.inflects and ending in self.inflects[str(length)]
HasGroup(tbl, length, ending) ==
    \E g \in DOMAIN tbl : tbl[g].len = length /\ tbl[g].ending = ending

\* self.inflects[str(length)][ending]
GroupOf(tbl, length, ending) ==
    tbl[CHOOSE g \in DOMAIN tbl : tbl[g].len = length /\ tbl[g].ending = ending].infls

(***************************************************************************)
(* _get_word_endings                                                       *)
(***************************************************************************)
VerbPos == {"V", "VPAR"}
NounPos == {"N", "ADJ", "PRON"}

NomS == <<"NOM", "S">>
GenS == <<"GEN", "S">>

\* form labels tested by the table scan, principal parts 1-4 of a verb
VerbLabel(i) ==
    CASE i = 1 -> <<"PRES", "ACTIVE", "IND", "1", "S">>
      [] i = 2 -> <<"PRES", "ACTIVE", "INF", "0", "X">>
      [] i = 3 -> <<"PERF", "ACTIVE", "IND", "1", "S">>
      [] i = 4 -> <<"NOM", "S", "M", "PRES", "PASSIVE", "PPL">>

\* form labels tested by the standardization section
VerbLabelStd(i) ==
    CASE i = 1 -> <<"PRES", "ACTIVE", "IND", "1", "S">>
      [] i = 2 -> <<"PRES", "ACTIVE", "INF", "0", "X">>
      [] i = 3 -> <<"PERF", "ACTIVE", "IND", "1", "S">>
      [] i = 4 -> <<"NOM", "S", "M", "PERF", "PASSIVE", "PPL">>

\* prefix tested for principal parts 1-2 of a noun, adjective or pronoun
NounLabel(i) == IF i = 1 THEN NomS ELSE GenS

\* the literal endings of the last section
DefaultEnding(i) ==
    CASE i = 1 -> <<"o">>
      [] i = 2 -> <<"?", "r", "e">>
      [] i = 3 -> <<"i">>
      [] i = 4 -> <<"u", "s">>

\* len(word['parts'][i]) > 0 and word['parts'][i] != "-"
PartOk(parts, i) == Len(parts[i]) > 0 /\ parts[i] # <<"-">>

RECURSIVE Repeat(_, _)
Repeat(s, k) == IF k = 0 THEN <<>> ELSE s \o Repeat(s, k - 1)

\* word['parts'][i] = word['parts'][i] + ending
AppendEnding(st, i, ending) == [st EXCEPT !.parts[i] = @ \o ending]

\* ... followed by end_<i> = True
AppendAndMark(st, i, ending) ==
    [AppendEnding(st, i, ending) EXCEPT !.done[i] = TRUE]

\* the class / part-of-speech test of lines 258-267
InflFitsWord(infl, word) ==
    /\ infl.n = word.n
    /\ \/ infl.pos = word.pos
       \/ (infl.pos \in VerbPos /\ word.pos \in VerbPos)

\* one of the four "if" blocks of lines 272-293
VerbSlot(st, i, infl) ==
    IF /\ Len(st.parts) >= i
       /\ ~st.done[i]
       /\ PartOk(st.parts, i)
       /\ infl.form = VerbLabel(i)
    THEN AppendAndMark(st, i, infl.ending)
    ELSE st

\* one of the two "if" blocks of lines 298-307
NounSlot(st, i, infl) ==
    IF /\ Len(st.parts) >= i
       /\ ~st.done[i]
       /\ StartsWith(infl.form, NounLabel(i))
       /\ PartOk(st.parts, i)
    THEN AppendAndMark(st, i, infl.ending)
    ELSE st

\* body of the innermost loop of the table scan (lines 258-307)
ScanStep(st, infl, word) ==
    IF ~InflFitsWord(infl, word) THEN st
    ELSE IF word.pos \in VerbPos
         THEN VerbSlot(VerbSlot(VerbSlot(VerbSlot(st, 1, infl), 2, infl), 3, infl), 4, infl)
         ELSE IF word.pos \in NounPos
              THEN NounSlot(NounSlot(st, 1, infl), 2, infl)
              ELSE st

RECURSIVE ScanFrom(_, _, _, _)
ScanFrom(st, flat, k, word) ==
    IF k > Len(flat) THEN st
    ELSE ScanFrom(ScanStep(st, flat[k], word), flat, k + 1, word)

\* lines 312-338: "for inf in self.inflects" tests the variable infl left
\* over from the table scan, appends once and breaks; end_<i> is not set
VerbStd(st, i, last, nkeys) ==
    IF /\ Len(st.parts) >= i
       /\ ~st.done[i]
       /\ nkeys > 0
       /\ last.form = VerbLabelStd(i)
       /\ last.n = <<0, 0>>
       /\ PartOk(st.parts, i)
    THEN AppendEnding(st, i, last.ending)
    ELSE st

\* lines 343-356: the loop has no break, the ending is appended once per key
NounStd(st, i, last, nkeys) ==
    IF /\ Len(st.parts) >= i
       /\ ~st.done[i]
       /\ last.n = <<0, 0>>
       /\ PartOk(st.parts, i)
       /\ nkeys > 0
       /\ StartsWith(last.form, NounLabel(i))
    THEN AppendAndMark(st, i, Repeat(last.ending, nkeys))
    ELSE st

\* lines 311-356
Standardize(st, word, last, nkeys) ==
    IF word.pos \in VerbPos
    THEN VerbStd(VerbStd(VerbStd(VerbStd(st, 1, last, nkeys), 2, last, nkeys),
                         3, last, nkeys), 4, last, nkeys)
    ELSE IF word.pos \in NounPos
         THEN NounStd(NounStd(st, 1, last, nkeys), 2, last, nkeys)
         ELSE st

DefaultSlot_Skipped(st, i) == st

\* one of the four "if" statements of lines 360-367
DefaultSlot(st, i) ==
    IF Len(st.parts) >= i /\ ~st.done[i] /\ PartOk(st.parts, i)
    THEN AppendEnding(st, i, DefaultEnding(i))
    ELSE st

\* lines 359-367
Defaults(st, word) ==
    IF word.pos \in VerbPos
    THEN DefaultSlot(DefaultSlot(DefaultSlot(DefaultSlot(st, 1), 2), 3), 4)
    ELSE st

\* _get_word_endings(word) for a non-empty inflection table: the table scan,
\* the standardization on the last inflection scanned, the literal defaults
_get_word_endings(word, tbl) ==
    LET flat  == FlatInfls(tbl)
        st0   == [parts |-> word.parts, done |-> <<FALSE, FALSE, FALSE, FALSE>>]
        st1   == ScanFrom(st0, flat, 1, word)
        st2   == Standardize(st1, word, LastOf(flat), NumKeys(tbl))
        st3   == Defaults(st2, word)
    IN  [word EXCEPT !.parts = st3.parts]

(***************************************************************************)
(* _split_enclitic                                                         *)
(***************************************************************************)
\* the empty enclitic '' of the identity split
NoEncl == [orth |-> <<>>, form |-> <<>>]

Est == <<"e", "s", "t">>
Qu == <<"q", "u">>

\* lines 212-221, one iteration: e['form'] = e['orth'] is a write to the
\* shared addon; the option refers to that (updated) addon
RECURSIVE TackonsFrom(_, _, _, _)
TackonsFrom(s, tack, k, out) ==
    IF k > Len(tack) THEN [out |-> out, tackons |-> tack]
    ELSE IF EndsWith(s, tack[k].orth)
         THEN LET e == [tack[k] EXCEPT !.form = tack[k].orth]
              IN  TackonsFrom(s, [tack EXCEPT ![k] = e], k + 1,
                      IF s # Est
                      THEN Append(out, [base |-> StripSuffix(s, e.orth), encl |-> e])
                      ELSE out)
         ELSE TackonsFrom(s, tack, k + 1, out)

\* lines 230-237: first addon of the list that leaves a non-empty base
RECURSIVE EncliticFrom(_, _, _, _)
EncliticFrom(s, lst, k, out) ==
    IF k > Len(lst) THEN out
    ELSE IF EndsWith(s, lst[k].orth) /\ Len(StripSuffix(s, lst[k].orth)) > 0
         THEN Append(out, [base |-> StripSuffix(s, lst[k].orth), encl |-> lst[k]])
         ELSE EncliticFrom(s, lst, k + 1, out)

\* the options for s, and the addon table as the call leaves it
_split_enclitic(s, ad) ==
    LET t   == TackonsFrom(s, ad.tackons, 1, <<[base |-> s, encl |-> NoEncl]>>)
        lst == IF StartsWith(s, Qu) THEN ad.packons ELSE ad.not_packons
    IN  [options |-> EncliticFrom(s, lst, 1, t.out),
         addons  |-> [ad EXCEPT !.tackons = t.tackons]]

(***************************************************************************)
(* _find_forms, first half: the candidate inflection groups                *)
(***************************************************************************)
\* the cap of line 85
MaxInflectLength == 7

\* lines 87-91, for length, length-1, ..., 1
RECURSIVE EndingsFrom(_, _, _)
EndingsFrom(base, tbl, length) ==
    IF length < 1 THEN <<>>
    ELSE (IF HasGroup(tbl, length, LastChars(base, length))
          THEN <<GroupOf(tbl, length, LastChars(base, length))>>
          ELSE <<>>) \o EndingsFrom(base, tbl, length - 1)

\* lines 77-91; err is KeyError when the table has no inflects["0"][""]
CandidateInfls(base, tbl, keys) ==
    IF base \in keys /\ ~HasGroup(tbl, 0, <<>>)
    THEN [infls |-> <<>>, err |-> "KeyError"]
    ELSE [infls |-> (IF base \in keys THEN <<GroupOf(tbl, 0, <<>>)>> ELSE <<>>)
                    \o EndingsFrom(base, tbl, Min(MaxInflectLength, Len(base)) - 1),
          err   |-> "none"]

(***************************************************************************)
(* _check_stems.  match_stems is a dict from stem orthography to a list    *)
(* of matched stems, modelled as the sequence of its items in insertion    *)
(* order.                                                                  *)
(***************************************************************************)
KeyIndex(ms, orth) == CHOOSE i \in DOMAIN ms : ms[i].orth = orth

\* first entry of the list with the candidate's wid (the for ... break)
WidIndex(entries, wid) ==
    CHOOSE j \in DOMAIN entries :
        /\ entries[j].st.wid = wid
        /\ \A h \in 1..(j - 1) : entries[h].st.wid # wid

\* lines 125-135
AddMatch(ms, cand, infl, encl) ==
    LET fresh == [st |-> cand, infls |-> <<infl>>, encl |-> encl]
    IN  IF \E i \in DOMAIN ms : ms[i].orth = cand.orth
        THEN LET i == KeyIndex(ms, cand.orth)
             IN  IF \E j \in DOMAIN ms[i].entries : ms[i].entries[j].st.wid = cand.wid
                 THEN [ms EXCEPT ![i].entries[WidIndex(ms[i].entries, cand.wid)].infls
                                     = Append(@, infl)]
                 ELSE [ms EXCEPT ![i].entries = Append(@, fresh)]
        ELSE Append(ms, [orth |-> cand.orth, entries |-> <<fresh>>])

\* lines 122-135: for infl in infl_list
RECURSIVE InflsFrom(_, _, _, _, _)
InflsFrom(ms, cand, infl_list, k, encl) ==
    IF k > Len(infl_list) THEN ms
    ELSE InflsFrom(IF check_match(cand, infl_list[k])
                   THEN AddMatch(ms, cand, infl_list[k], encl)
                   ELSE ms,
                   cand, infl_list, k + 1, encl)

\* lines 121-135: for stem_candidate in stem_list
RECURSIVE CandidatesFrom(_, _, _, _, _)
CandidatesFrom(ms, stem_list, c, infl_list, encl) ==
    IF c > Len(stem_list) THEN ms
    ELSE CandidatesFrom(InflsFrom(ms, stem_list[c], infl_list, 1, encl),
                        stem_list, c + 1, infl_list, encl)

\* lines 115-118
OptionStem(base, infl_list) ==
    IF Len(infl_list[1].ending) > 0
    THEN DropLast(base, Len(infl_list[1].ending))
    ELSE base

\* lines 114-135: for infl_list in infls
RECURSIVE GroupsFrom(_, _, _, _, _)
GroupsFrom(ms, option, infls, g, stab) ==
    IF g > Len(infls) THEN ms
    ELSE LET option_stem == OptionStem(option.base, infls[g])
         IN  GroupsFrom(IF option_stem \in DOMAIN stab
                        THEN CandidatesFrom(ms, stab[option_stem], 1, infls[g], option.encl)
                        ELSE ms,
                        option, infls, g + 1, stab)

_check_stems(option, infls, stab) == GroupsFrom(<<>>, option, infls, 1, stab)

(***************************************************************************)
(* _lookup_stems.  The headword table is threaded through the loop so      *)
(* that a write through an alias of a table entry would be seen.           *)
(***************************************************************************)
\* remove_extra_infls: list.remove for every inflection of the given type
remove_extra_infls(stem, remove_type) ==
    [stem EXCEPT !.infls = SelectSeq(@, LAMBDA infl : infl.pos # remove_type)]

\* self.wordlist[int(wid)] raises IndexError outside -len .. len-1
InRange(wl, wid) == -Len(wl) <= wid /\ wid < Len(wl)

\* position in the table of self.wordlist[wid] (negative indexes wrap)
SlotOf(wl, wid) == IF wid >= 0 THEN wid + 1 ELSE Len(wl) + wid + 1

\* word['parts'].index(orth): zero-based position of the first occurrence
IndexIn(parts, orth) ==
    (CHOOSE i \in DOMAIN parts :
        parts[i] = orth /\ \A h \in 1..(i - 1) : parts[h] # orth) - 1

\* flattening of "for key, stems in match_stems.items(): for stem in stems"
RECURSIVE AllEntries(_, _)
AllEntries(ms, i) ==
    IF i > Len(ms) THEN <<>> ELSE ms[i].entries \o AllEntries(ms, i + 1)

\* first w in out with w['w']['id'] == id
OutIndex(out, id) ==
    CHOOSE i \in DOMAIN out :
        out[i].w.id = id /\ \A h \in 1..(i - 1) : out[h].w.id # id

AliasSlot(slot) == slot

\* word_clone = deepcopy(word): the clone shares no storage with the table
\* entry at slot; 0 stands for "no table slot"
CloneSlot(slot) == 0

\* the object word_clone after line 199 is stored where word_clone lives
StoreClone(wl, slot, word) ==
    IF slot = 0 THEN wl ELSE [wl EXCEPT ![slot] = word]

\* lines 159-177: the word is in out already
MergeIntoOut(out, i, stem) ==
    IF \E k \in DOMAIN out[i].stems : out[i].stems[k] = stem
    THEN out
    ELSE [out EXCEPT ![i].stems = Append(@, stem)]

\* lines 183-193
VerbFilter(word, stem) ==
    IF word.pos = "V"
    THEN IF IndexIn(word.parts, stem.st.orth) = 3
         THEN remove_extra_infls(stem, "V")
         ELSE remove_extra_infls(stem, "VPAR")
    ELSE stem

IsInOut_Never(out, word) == FALSE

\* is_in_out after the loop of lines 161-177
IsInOut(out, word) == \E i \in DOMAIN out : out[i].w.id = word.id

\* line 202, and the place the (possibly extended) word_clone is stored
AppendWord(acc, kept, cslot, clone) ==
    [out |-> Append(acc.out, [w |-> clone, enclitic |-> kept.encl, stems |-> <<kept>>]),
     wl  |-> StoreClone(acc.wl, cslot, clone),
     err |-> "none"]

\* lines 159-202 for one matched stem whose word is the table entry at slot;
\* list.index raises ValueError when the stem is none of the verb's parts
LookupWord(acc, stem, slot, word, get_word_ends, tbl) ==
    IF IsInOut(acc.out, word)
    THEN [acc EXCEPT !.out = MergeIntoOut(@, OutIndex(acc.out, word.id), stem)]
    ELSE IF word.pos = "V"
            /\ ~\E i \in DOMAIN word.parts : word.parts[i] = stem.st.orth
         THEN [acc EXCEPT !.err = "ValueError"]
         ELSE AppendWord(acc, VerbFilter(word, stem), CloneSlot(slot),
                         IF get_word_ends THEN _get_word_endings(word, tbl) ELSE word)

\* body of the loop of lines 153-202 for one matched stem
LookupStep(acc, stem, get_word_ends, tbl) ==
    IF ~InRange(acc.wl, stem.st.wid) THEN acc
    ELSE LookupWord(acc, stem, SlotOf(acc.wl, stem.st.wid),
                    acc.wl[SlotOf(acc.wl, stem.st.wid)], get_word_ends, tbl)

RECURSIVE LookupFrom(_, _, _, _, _)
LookupFrom(acc, entries, k, get_word_ends, tbl) ==
    IF k > Len(entries) \/ acc.err # "none" THEN acc
    ELSE LookupFrom(LookupStep(acc, entries[k], get_word_ends, tbl),
                    entries, k + 1, get_word_ends, tbl)

_lookup_stems(match_stems, get_word_ends, wl, tbl) ==
    LookupFrom([out |-> <<>>, wl |-> wl, err |-> "none"],
               AllEntries(match_stems, 1), 1, get_word_ends, tbl)

(***************************************************************************)
(* _find_forms and _reduce.  T is the record of the six tables; a result   *)
(* carries the list out, the headword table as the call leaves it, the     *)
(* exception raised if any, and one trace record per _find_forms call.     *)
(***************************************************************************)
\* first addon of the list that s starts with (lines 378-382)
RECURSIVE PrefixFrom(_, _, _)
PrefixFrom(s, lst, k) ==
    IF k > Len(lst) THEN s
    ELSE IF StartsWith(s, lst[k].orth) THEN StripPrefix(s, lst[k].orth)
         ELSE PrefixFrom(s, lst, k + 1)

\* first addon of the list that s ends with (lines 384-388)
RECURSIVE SuffixFrom(_, _, _)
SuffixFrom(s, lst, k) ==
    IF k > Len(lst) THEN s
    ELSE IF EndsWith(s, lst[k].orth) THEN StripSuffix(s, lst[k].orth)
         ELSE SuffixFrom(s, lst, k + 1)

\* lines 375-391: option['base'] after the stripping
ReducedBase(base, ad) == SuffixFrom(PrefixFrom(base, ad.prefixes, 1), ad.suffixes, 1)

\* lines 396-401
AcceptReduction(out) ==
    IF Len(out) > 0 /\ ~\E i \in DOMAIN out : Len(out[i].stems) > 0
    THEN <<>>
    ELSE out

ShouldReduce_Always(out, reduced) == Len(out) = 0

\* lines 99-103: reduce when there are no hits and the call is not itself
\* the retry of a reduction
ShouldReduce(out, reduced) == Len(out) = 0 /\ ~reduced

RECURSIVE _find_forms(_, _, _, _, _)

\* _reduce(option); depth counts the _find_forms frames above it
_reduce(option, T, wl, depth) ==
    [_find_forms([option EXCEPT !.base = ReducedBase(option.base, T.addons)],
                 TRUE, T, wl, depth) EXCEPT !.out = AcceptReduction(@)]

\* one record of the trace: a _find_forms call and its direct hits
TraceRec(option, reduced, hits) ==
    [base |-> option.base, reduced |-> reduced, hits |-> hits]

Raised(wl, err, trace) == [out |-> <<>>, wl |-> wl, err |-> err, trace |-> trace]

PrependTrace(rec, r) == [r EXCEPT !.trace = <<rec>> \o @]

\* lines 99-104, l being what _lookup_stems returned (or raised)
FindFormsResult(option, reduced, T, depth, l) ==
    IF l.err # "none"
    THEN Raised(l.wl, l.err, <<TraceRec(option, reduced, Len(l.out))>>)
    ELSE IF ShouldReduce(l.out, reduced)
         THEN PrependTrace(TraceRec(option, reduced, Len(l.out)),
                           _reduce(option, T, l.wl, depth + 1))
         ELSE [out |-> l.out, wl |-> l.wl, err |-> "none",
               trace |-> <<TraceRec(option, reduced, Len(l.out))>>]

\* lines 93-104, c being the candidate inflection groups
FindFormsWith(option, reduced, T, wl, depth, c) ==
    IF c.err # "none"
    THEN Raised(wl, c.err, <<TraceRec(option, reduced, 0)>>)
    ELSE FindFormsResult(option, reduced, T, depth,
             _lookup_stems(_check_stems(option, c.infls, T.stems), ~reduced, wl, T.inflects))

\* _find_forms(option, reduced); RecursionError at nesting depth MaxDepth
_find_forms(option, reduced, T, wl, depth) ==
    IF depth >= MaxDepth
    THEN Raised(wl, "RecursionError", <<>>)
    ELSE FindFormsWith(option, reduced, T, wl, depth,
                       CandidateInfls(option.base, T.inflects, T.wordkeys))

(***************************************************************************)
(* parse                                                                   *)
(***************************************************************************)
\* lines 63-66
UniqueOut(forms, encl) ==
    [i \in DOMAIN forms |-> [w |-> forms[i], enclitic |-> encl, stems |-> <<>>]]

\* body of the loop of lines 60-69 for one option
OptionResult(option, T, wl) ==
    IF option.base \in DOMAIN T.uniques
    THEN [out |-> UniqueOut(T.uniques[option.base], option.encl), wl |-> wl,
          err |-> "none", trace |-> <<>>]
    ELSE _find_forms(option, FALSE, T, wl, 0)

NextOption_First(k, n) == n + 1

\* the loop visits every option in turn
NextOption(k, n) == k + 1

\* out = ... of line 64-69: the result r of the iteration replaces out
Overwrite(acc, r) ==
    [out |-> r.out, wl |-> r.wl, err |-> r.err, per |-> Append(acc.per, r.trace)]

\* lines 60-69: out is overwritten by every iteration; per collects the
\* traces of the iterations
RECURSIVE OptionsFrom(_, _, _, _)
OptionsFrom(acc, options, k, T) ==
    IF k > Len(options) \/ acc.err # "none" THEN acc
    ELSE OptionsFrom(Overwrite(acc, OptionResult(options[k], T, acc.wl)),
                     options, NextOption(k, Len(options)), T)

\* what the call leaves: r from the loop, se from the splitter
ParseOutcome(r, se) ==
    [out |-> r.out, err |-> r.err, per |-> r.per, options |-> se.options,
     wordlist |-> r.wl, addons |-> se.addons]

\* lines 60-71, se being what _split_enclitic returned
ParseOptions(T, se) ==
    ParseOutcome(OptionsFrom([out |-> <<>>, wl |-> T.wordlist, err |-> "none", per |-> <<>>],
                             se.options, 1, [T EXCEPT !.addons = se.addons]),
                 se)

\* parse(word) for an alphabetic word
parse(word, T) == ParseOptions(T, _split_enclitic(word, T.addons))

(***************************************************************************)
(* Table contents and tokens explored.  The constructor (lines 37-44)      *)
(* takes any six tables; the ones below form a small Latin lexicon.        *)
(* Headword ids, and the wid of a stem, count from 0 as in the source.     *)
(***************************************************************************)
W_amo == [id |-> 0, pos |-> "V", n |-> <<1, 1>>, parts |-> <<<<"a", "m">>, <<"a", "m">>, <<"a", "m", "a", "v">>, <<"a", "m", "a", "t">>>>]
W_rosa == [id |-> 1, pos |-> "N", n |-> <<1, 1>>, parts |-> <<<<"r", "o", "s">>, <<"r", "o", "s">>>>]
W_res == [id |-> 2, pos |-> "N", n |-> <<5, 1>>, parts |-> <<<<"r">>, <<"r", "e">>>>]
W_et == [id |-> 3, pos |-> "CONJ", n |-> <<0, 0>>, parts |-> <<<<"e", "t">>>>]
W_moneo == [id |-> 4, pos |-> "V", n |-> <<2, 1>>, parts |-> <<<<"m", "o", "n">>, <<"m", "o", "n">>, <<"m", "o", "n", "u">>, <<"m", "o", "n", "i", "t">>>>]

\* a full headword table, and one that has lost its last three entries
WordlistChoices == {<<W_amo, W_rosa, W_res, W_et, W_moneo>>, <<W_amo, W_rosa>>}

\* one Stem record per (orthography, headword)
StemsPlain ==
    (<<"a", "m">> :> <<[orth |-> <<"a", "m">>, wid |-> 0, pos |-> "V", n |-> <<1, 1>>, form |-> <<"V", "1", "1", "X", "X">>]>>
    @@ <<"a", "m", "a", "v">> :> <<[orth |-> <<"a", "m", "a", "v">>, wid |-> 0, pos |-> "V", n |-> <<1, 1>>, form |-> <<"V", "1", "1", "X", "X">>]>>
    @@ <<"a", "m", "a", "t">> :> <<[orth |-> <<"a", "m", "a", "t">>, wid |-> 0, pos |-> "V", n |-> <<1, 1>>, form |-> <<"V", "1", "1", "X", "X">>]>>
    @@ <<"r", "o", "s">> :> <<[orth |-> <<"r", "o", "s">>, wid |-> 1, pos |-> "N", n |-> <<1, 1>>, form |-> <<"N", "1", "1", "X", "F">>]>>
    @@ <<"r">> :> <<[orth |-> <<"r">>, wid |-> 2, pos |-> "N", n |-> <<5, 1>>, form |-> <<"N", "5", "1", "X", "F">>]>>
    @@ <<"r", "e">> :> <<[orth |-> <<"r", "e">>, wid |-> 2, pos |-> "N", n |-> <<5, 1>>, form |-> <<"N", "5", "1", "X", "F">>]>>
    @@ <<"e", "t">> :> <<[orth |-> <<"e", "t">>, wid |-> 3, pos |-> "CONJ", n |-> <<0, 0>>, form |-> <<"CONJ", "0", "0", "X", "X">>]>>)

\* "am" is both the first and the second stem of headword 0
StemsRepeated ==
    (<<"a", "m">> :> <<[orth |-> <<"a", "m">>, wid |-> 0, pos |-> "V", n |-> <<1, 1>>, form |-> <<"V", "1", "1", "X", "X">>], [orth |-> <<"a", "m">>, wid |-> 0, pos |-> "V", n |-> <<1, 1>>, form |-> <<"V", "1", "1", "X", "X">>]>>
    @@ <<"a", "m", "a", "v">> :> <<[orth |-> <<"a", "m", "a", "v">>, wid |-> 0, pos |-> "V", n |-> <<1, 1>>, form |-> <<"V", "1", "1", "X", "X">>]>>
    @@ <<"a", "m", "a", "t">> :> <<[orth |-> <<"a", "m", "a", "t">>, wid |-> 0, pos |-> "V", n |-> <<1, 1>>, form |-> <<"V", "1", "1", "X", "X">>]>>
    @@ <<"r", "o", "s">> :> <<[orth |-> <<"r", "o", "s">>, wid |-> 1, pos |-> "N", n |-> <<1, 1>>, form |-> <<"N", "1", "1", "X", "F">>]>>
    @@ <<"r">> :> <<[orth |-> <<"r">>, wid |-> 2, pos |-> "N", n |-> <<5, 1>>, form |-> <<"N", "5", "1", "X", "F">>]>>
    @@ <<"r", "e">> :> <<[orth |-> <<"r", "e">>, wid |-> 2, pos |-> "N", n |-> <<5, 1>>, form |-> <<"N", "5", "1", "X", "F">>]>>
    @@ <<"e", "t">> :> <<[orth |-> <<"e", "t">>, wid |-> 3, pos |-> "CONJ", n |-> <<0, 0>>, form |-> <<"CONJ", "0", "0", "X", "X">>]>>)

\* "am" and "ros" carry ids of another numbering of the headwords
StemsStale ==
    (<<"a", "m">> :> <<[orth |-> <<"a", "m">>, wid |-> 4, pos |-> "V", n |-> <<1, 1>>, form |-> <<"V", "1", "1", "X", "X">>]>>
    @@ <<"a", "m", "a", "v">> :> <<[orth |-> <<"a", "m", "a", "v">>, wid |-> 0, pos |-> "V", n |-> <<1, 1>>, form |-> <<"V", "1", "1", "X", "X">>]>>
    @@ <<"a", "m", "a", "t">> :> <<[orth |-> <<"a", "m", "a", "t">>, wid |-> 0, pos |-> "V", n |-> <<1, 1>>, form |-> <<"V", "1", "1", "X", "X">>]>>
    @@ <<"r", "o", "s">> :> <<[orth |-> <<"r", "o", "s">>, wid |-> 7, pos |-> "N", n |-> <<1, 1>>, form |-> <<"N", "1", "1", "X", "F">>]>>
    @@ <<"r">> :> <<[orth |-> <<"r">>, wid |-> 2, pos |-> "N", n |-> <<5, 1>>, form |-> <<"N", "5", "1", "X", "F">>]>>
    @@ <<"r", "e">> :> <<[orth |-> <<"r", "e">>, wid |-> 2, pos |-> "N", n |-> <<5, 1>>, form |-> <<"N", "5", "1", "X", "F">>]>>
    @@ <<"e", "t">> :> <<[orth |-> <<"e", "t">>, wid |-> 3, pos |-> "CONJ", n |-> <<0, 0>>, form |-> <<"CONJ", "0", "0", "X", "X">>]>>)

StemsChoices == {StemsPlain, StemsRepeated, StemsStale}

InflectsByLength == <<
    [len |-> 0, ending |-> <<>>, infls |-> <<[ending |-> <<>>, pos |-> "CONJ", n |-> <<0, 0>>, form |-> <<"CONJ">>]>>],
    [len |-> 1, ending |-> <<"a">>, infls |-> <<[ending |-> <<"a">>, pos |-> "N", n |-> <<1, 1>>, form |-> <<"NOM", "S", "C">>]>>],
    [len |-> 1, ending |-> <<"i">>, infls |-> <<[ending |-> <<"i">>, pos |-> "N", n |-> <<5, 1>>, form |-> <<"DAT", "S", "C">>],
        [ending |-> <<"i">>, pos |-> "V", n |-> <<0, 0>>, form |-> <<"PERF", "ACTIVE", "IND", "1", "S">>]>>],
    [len |-> 1, ending |-> <<"o">>, infls |-> <<[ending |-> <<"o">>, pos |-> "V", n |-> <<1, 1>>, form |-> <<"PRES", "ACTIVE", "IND", "1", "S">>]>>],
    [len |-> 2, ending |-> <<"a", "e">>, infls |-> <<[ending |-> <<"a", "e">>, pos |-> "N", n |-> <<1, 1>>, form |-> <<"GEN", "S", "C">>]>>],
    [len |-> 2, ending |-> <<"e", "i">>, infls |-> <<[ending |-> <<"e", "i">>, pos |-> "N", n |-> <<5, 1>>, form |-> <<"GEN", "S", "C">>]>>],
    [len |-> 2, ending |-> <<"u", "s">>, infls |-> <<[ending |-> <<"u", "s">>, pos |-> "VPAR", n |-> <<0, 0>>, form |-> <<"NOM", "S", "M", "PERF", "PASSIVE", "PPL">>]>>],
    [len |-> 3, ending |-> <<"a", "n", "s">>, infls |-> <<[ending |-> <<"a", "n", "s">>, pos |-> "VPAR", n |-> <<1, 0>>, form |-> <<"NOM", "S", "X", "PRES", "ACTIVE", "PPL">>]>>],
    [len |-> 3, ending |-> <<"a", "r", "e">>, infls |-> <<[ending |-> <<"a", "r", "e">>, pos |-> "V", n |-> <<1, 1>>, form |-> <<"PRES", "ACTIVE", "INF", "0", "X">>]>>] >>

\* the same groups, the keys "2" and "3" inserted before the key "1"
InflectsReordered == <<
    [len |-> 0, ending |-> <<>>, infls |-> <<[ending |-> <<>>, pos |-> "CONJ", n |-> <<0, 0>>, form |-> <<"CONJ">>]>>],
    [len |-> 2, ending |-> <<"a", "e">>, infls |-> <<[ending |-> <<"a", "e">>, pos |-> "N", n |-> <<1, 1>>, form |-> <<"GEN", "S", "C">>]>>],
    [len |-> 2, ending |-> <<"e", "i">>, infls |-> <<[ending |-> <<"e", "i">>, pos |-> "N", n |-> <<5, 1>>, form |-> <<"GEN", "S", "C">>]>>],
    [len |-> 2, ending |-> <<"u", "s">>, infls |-> <<[ending |-> <<"u", "s">>, pos |-> "VPAR", n |-> <<0, 0>>, form |-> <<"NOM", "S", "M", "PERF", "PASSIVE", "PPL">>]>>],
    [len |-> 3, ending |-> <<"a", "n", "s">>, infls |-> <<[ending |-> <<"a", "n", "s">>, pos |-> "VPAR", n |-> <<1, 0>>, form |-> <<"NOM", "S", "X", "PRES", "ACTIVE", "PPL">>]>>],
    [len |-> 3, ending |-> <<"a", "r", "e">>, infls |-> <<[ending |-> <<"a", "r", "e">>, pos |-> "V", n |-> <<1, 1>>, form |-> <<"PRES", "ACTIVE", "INF", "0", "X">>]>>],
    [len |-> 1, ending |-> <<"a">>, infls |-> <<[ending |-> <<"a">>, pos |-> "N", n |-> <<1, 1>>, form |-> <<"NOM", "S", "C">>]>>],
    [len |-> 1, ending |-> <<"o">>, infls |-> <<[ending |-> <<"o">>, pos |-> "V", n |-> <<1, 1>>, form |-> <<"PRES", "ACTIVE", "IND", "1", "S">>]>>],
    [len |-> 1, ending |-> <<"i">>, infls |-> <<[ending |-> <<"i">>, pos |-> "N", n |-> <<5, 1>>, form |-> <<"DAT", "S", "C">>],
        [ending |-> <<"i">>, pos |-> "V", n |-> <<0, 0>>, form |-> <<"PERF", "ACTIVE", "IND", "1", "S">>]>>] >>

InflectsChoices == {InflectsByLength, InflectsReordered}

AddonsLatin ==
    [tackons     |-> <<[orth |-> <<"q", "u", "e">>, form |-> <<>>], [orth |-> <<"e", "s", "t">>, form |-> <<>>]>>,
     packons     |-> <<[orth |-> <<"q", "u", "e">>, form |-> <<>>]>>,
     not_packons |-> <<[orth |-> <<"n", "e">>, form |-> <<>>]>>,
     prefixes    |-> <<[orth |-> <<"r", "e">>, form |-> <<>>]>>,
     suffixes    |-> <<[orth |-> <<"x">>, form |-> <<>>]>>]

AddonsNone ==
    [tackons |-> <<>>, packons |-> <<>>, not_packons |-> <<>>,
     prefixes |-> <<>>, suffixes |-> <<>>]

AddonsChoices == {AddonsLatin, AddonsNone}

UniquesLatin ==
    (<<"s", "u", "m">> :> <<[orth |-> <<"s", "u", "m">>, pos |-> "V", senses |-> "be"]>>
    @@ <<"n", "e", "q", "u", "e">> :> <<[orth |-> <<"n", "e", "q", "u", "e">>, pos |-> "CONJ", senses |-> "nor"],
                                [orth |-> <<"n", "e", "q", "u", "e">>, pos |-> "ADV", senses |-> "not"]>>)

\* a dict with no key
UniquesNone == <<>>

UniquesChoices == {UniquesLatin, UniquesNone}

WordkeysChoices == {{<<"e", "t">>}, {}}

Tokens == {<<"a", "m", "o">>,
           <<"a", "m", "a", "n", "s">>,
           <<"a", "m", "a", "t", "u", "s">>,
           <<"r", "o", "s", "a">>,
           <<"r", "o", "s", "a", "q", "u", "e">>,
           <<"r", "e", "i">>,
           <<"e", "t">>,
           <<"e", "s", "t">>,
           <<"s", "u", "m">>,
           <<"n", "e", "q", "u", "e">>,
           <<"q", "u", "i", "q", "u", "e">>,
           <<"r", "e", "a", "m", "o">>,
           <<"a", "m", "o", "x">>,
           <<"x", "x">>,
           <<"a", "1">>,
           <<>>}

(***************************************************************************)
(* The parser as a state machine: the six tables of the Parser object,     *)
(* and the outcome of the last call of parse.                              *)
(***************************************************************************)
NoResult == [status |-> "none", word |-> <<>>, out |-> <<>>, err |-> "none",
             per |-> <<>>, options |-> <<>>]

NoRet == [done |-> FALSE, value |-> FALSE]

Tables == [wordlist |-> wordlist, stems |-> stems, inflects |-> inflects,
           addons |-> addons, uniques |-> uniques, wordkeys |-> wordkeys]

Init ==
    /\ wordlist \in WordlistChoices
    /\ stems \in StemsChoices
    /\ inflects \in InflectsChoices
    /\ addons \in AddonsChoices
    /\ uniques \in UniquesChoices
    /\ wordkeys \in WordkeysChoices
    /\ result = NoResult
    /\ arg = <<>>
    /\ ret = NoRet

\* parse(word), line 54-55: the word is rejected
ParseReject(word) ==
    /\ ~IsAlpha(word)
    /\ result' = [status |-> "rejected", word |-> word, out |-> <<>>,
                  err |-> "WordsException", per |-> <<>>, options |-> <<>>]
    /\ UNCHANGED <<tables, arg, ret>>

\* the state after a call of parse that left p
ParseEffect(word, p) ==
    /\ result' = [status |-> IF p.err = "none" THEN "ok" ELSE "raised",
                  word |-> word, out |-> p.out, err |-> p.err,
                  per |-> p.per, options |-> p.options]
    /\ wordlist' = p.wordlist
    /\ addons' = p.addons

\* parse(word), lines 57-71: out is handed to format_output, unless an
\* exception ends the call
ParseCall(word) ==
    /\ IsAlpha(word)
    /\ ParseEffect(word, parse(word, Tables))
    /\ UNCHANGED <<stems, inflects, uniques, wordkeys, arg, ret>>

Next ==
    \/ \E word \in Tokens : ParseReject(word)
    \/ \E word \in Tokens : ParseCall(word)

Spec == Init /\ [][Next]_vars

(***************************************************************************)
(* check_match on its own: every noun or verb stem against every noun,     *)
(* verb or participle inflection with class components in 0..MaxClass      *)
(***************************************************************************)
MatchStems ==
    {[orth |-> <<"a", "m">>, wid |-> 0, pos |-> p, n |-> <<a, b>>,
      form |-> <<p, "1", "1", "X", g>>] :
        p \in {"N", "V"}, a \in 0..MaxClass, b \in 0..MaxClass, g \in {"F", "M"}}

MatchInfls ==
    {[ending |-> <<"a">>, pos |-> p, n |-> <<a, b>>, form |-> <<"NOM", "S", g>>] :
        p \in {"N", "V", "VPAR"}, a \in 0..MaxClass, b \in 0..MaxClass,
        g \in {"F", "M", "C"}}

FixedTables ==
    /\ wordlist = <<W_amo, W_rosa, W_res, W_et, W_moneo>>
    /\ stems = StemsPlain
    /\ addons = AddonsLatin
    /\ uniques = UniquesLatin
    /\ wordkeys = {}

InitMatch ==
    /\ FixedTables
    /\ inflects = InflectsByLength
    /\ result = NoResult
    /\ arg \in [stem : MatchStems, infl : MatchInfls]
    /\ ret = NoRet

CheckMatchCall ==
    /\ ~ret.done
    /\ ret' = [done |-> TRUE, value |-> check_match(arg.stem, arg.infl)]
    /\ UNCHANGED <<tables, result, arg>>

NextMatch == CheckMatchCall

SpecMatch == InitMatch /\ [][NextMatch]_vars

(***************************************************************************)
(* _get_word_endings on its own: headwords of five parts of speech with    *)
(* zero to five principal parts, against four non-empty inflection tables  *)
(* (the method is reached only through a matched inflection, so the table  *)
(* it scans holds at least one)                                            *)
(***************************************************************************)
\* the only inflection is a first-person ending that is the empty string
InflectsBare == <<
    [len |-> 0, ending |-> <<>>, infls |-> <<[ending |-> <<>>, pos |-> "V", n |-> <<1, 1>>,
        form |-> <<"PRES", "ACTIVE", "IND", "1", "S">>]>>] >>

\* class-0 noun endings only
InflectsWild == <<
    [len |-> 1, ending |-> <<"a">>, infls |-> <<[ending |-> <<"a">>, pos |-> "N", n |-> <<0, 0>>,
        form |-> <<"NOM", "S", "C">>]>>],
    [len |-> 2, ending |-> <<"a", "e">>, infls |-> <<[ending |-> <<"a", "e">>, pos |-> "N", n |-> <<0, 0>>,
        form |-> <<"GEN", "S", "C">>]>>] >>

EndingTables == {InflectsByLength, InflectsReordered, InflectsBare, InflectsWild}

PartsChoices ==
    {<<>>,
     <<<<"a", "m">>>>,
     <<<<"r", "o", "s">>, <<"r", "o", "s">>>>,
     <<<<"a", "m">>, <<"-">>, <<"a", "m", "a", "v">>, <<"a", "m", "a", "t">>>>,
     <<<<"a", "m">>, <<"a", "m">>, <<"a", "m", "a", "v">>, <<"a", "m", "a", "t">>>>,
     <<<<>>, <<"a", "m">>, <<"a", "m", "a", "v">>, <<"a", "m", "a", "t">>>>,
     <<<<"a", "m">>, <<"a", "m">>, <<"a", "m", "a", "v">>, <<"a", "m", "a", "t">>, <<"a", "m">>>>}

EndingWords ==
    {[id |-> 0, pos |-> p, n |-> c, parts |-> ps] :
        p \in {"V", "VPAR", "N", "ADJ", "ADV"}, c \in {<<1, 1>>, <<0, 0>>},
        ps \in PartsChoices}

InitEndings ==
    /\ FixedTables
    /\ inflects \in EndingTables
    /\ result = NoResult
    /\ arg \in EndingWords
    /\ ret = NoRet

GetWordEndingsCall ==
    /\ ~ret.done
    /\ ret' = [done |-> TRUE, value |-> _get_word_endings(arg, inflects)]
    /\ UNCHANGED <<tables, result, arg>>

NextEndings == GetWordEndingsCall

SpecEndings == InitEndings /\ [][NextEndings]_vars

(***************************************************************************)
(* _check_stems on its own: an option without enclitic, and every list of  *)
(* one to MaxGroups inflection groups of the table                         *)
(***************************************************************************)
StemBases == {<<"a", "m", "o">>, <<"a", "m", "a", "n", "s">>, <<"r", "e", "i">>, <<"r", "o", "s", "a">>}

GroupLists(tbl) ==
    UNION {[1..k -> {tbl[g].infls : g \in DOMAIN tbl}] : k \in 1..MaxGroups}

InitStems ==
    /\ wordlist = <<W_amo, W_rosa, W_res, W_et, W_moneo>>
    /\ stems \in StemsChoices
    /\ inflects \in InflectsChoices
    /\ addons = AddonsLatin
    /\ uniques = UniquesLatin
    /\ wordkeys = {}
    /\ result = NoResult
    /\ arg \in [option : [base : StemBases, encl : {NoEncl}], infls : GroupLists(inflects)]
    /\ ret = NoRet

CheckStemsCall ==
    /\ ~ret.done
    /\ ret' = [done |-> TRUE, value |-> _check_stems(arg.option, arg.infls, stems)]
    /\ UNCHANGED <<tables, result, arg>>

NextStems == CheckStemsCall

SpecStems == InitStems /\ [][NextStems]_vars

(***************************************************************************)
(* Properties                                                              *)
(***************************************************************************)
\* entries of the returned list that come from the matching pipeline (the
\* pre-built unique forms carry no headword id)
Resolved(out) == {i \in DOMAIN out : "id" \in DOMAIN out[i].w}

\* C1: the list returned by one parse call holds no two ResolvedWords with
\* the same headword id
C1_DistinctHeadwords ==
    result.status = "ok" =>
        \A i \in Resolved(result.out) : \A j \in Resolved(result.out) :
            i # j => result.out[i].w.id # result.out[j].w.id

\* a second matched stem of a headword was merged into the existing entry
C1_Witness ==
    /\ result.status = "ok"
    /\ \E i \in Resolved(result.out) :
          /\ Len(result.out[i].stems) >= 2
          /\ result.out[i].stems[1].st.orth # result.out[i].stems[2].st.orth

\* C2: in every ResolvedWord of the matching pipeline the matched stems have
\* pairwise distinct (orth, wid) pairs and non-empty inflection lists
C2_StemsDistinctNonEmpty ==
    result.status = "ok" =>
        \A i \in Resolved(result.out) :
            LET ss == result.out[i].stems
            IN  /\ \A k \in DOMAIN ss : Len(ss[k].infls) > 0
                /\ \A k \in DOMAIN ss : \A h \in DOMAIN ss :
                       k # h => <<ss[k].st.orth, ss[k].st.wid>> # <<ss[h].st.orth, ss[h].st.wid>>

\* C3: a token that is a key of the uniques table yields exactly the forms
\* stored under that key, each with an empty stems list
C3_UniqueShortcut ==
    (result.status \in {"ok", "raised"} /\ result.word \in DOMAIN uniques) =>
        /\ result.status = "ok"
        /\ result.out = UniqueOut(uniques[result.word], NoEncl)

\* C4: no step changes an entry of the shared headword table
C4_HeadwordsUnchanged == [][wordlist' = wordlist]_vars

\* a returned headword carries reconstructed endings its table entry lacks
C4_Witness ==
    /\ result.status = "ok"
    /\ \E i \in Resolved(result.out) :
          \E k \in DOMAIN wordlist :
              /\ wordlist[k].id = result.out[i].w.id
              /\ wordlist[k].parts # result.out[i].w.parts

\* C5: parse ends in an error only by rejecting a non-alphabetic or empty
\* token
C5_OnlyInvalidInputFails ==
    \/ result.status \in {"none", "ok"}
    \/ (result.status = "rejected" /\ ~IsAlpha(result.word))

\* C6 (as stated): every principal part that was non-empty and not "-" comes
\* back as itself followed by a non-empty suffix
C6_EveryPartExtended ==
    ret.done =>
        \A i \in DOMAIN arg.parts :
            PartOk(arg.parts, i) =>
                /\ StartsWith(ret.value.parts[i], arg.parts[i])
                /\ Len(ret.value.parts[i]) > Len(arg.parts[i])

\* the table scan finds an ending for principal part i of the word, and the
\* first one it finds is the empty string
FirstEndingEmpty(word, tbl, i) ==
    LET flat == FlatInfls(tbl)
        fits == {k \in DOMAIN flat : InflFitsWord(flat[k], word) /\ flat[k].form = VerbLabel(i)}
    IN  /\ fits # {}
        /\ flat[CHOOSE k \in fits : \A h \in fits : k <= h].ending = <<>>

\* C6 (amended): for a verb or participle headword each of the first four
\* principal parts that was non-empty and not "-" comes back as itself
\* followed by a suffix, which is non-empty unless the first table ending
\* found for that part is the empty string
C6_VerbPartsExtended ==
    (ret.done /\ arg.pos \in VerbPos) =>
        \A i \in DOMAIN arg.parts :
            (i <= 4 /\ PartOk(arg.parts, i)) =>
                /\ StartsWith(ret.value.parts[i], arg.parts[i])
                /\ \/ Len(ret.value.parts[i]) > Len(arg.parts[i])
                   \/ FirstEndingEmpty(arg, inflects, i)

\* a verb part for which the table has no ending received the literal one
C6_Witness ==
    /\ ret.done
    /\ arg.pos \in VerbPos
    /\ \E i \in DOMAIN arg.parts :
          /\ i <= 4
          /\ PartOk(arg.parts, i)
          /\ ret.value.parts[i] = arg.parts[i] \o DefaultEnding(i)

\* C7 (as stated): on a noun stem check_match is true exactly when the
\* inflection is a noun inflection, the class pairs are equal or the majors
\* are equal and the stem's minor component is 0, and the form token fits
C7_StemWildcard ==
    (ret.done /\ arg.stem.pos = "N") =>
        (ret.value <=>
            /\ arg.infl.pos = "N"
            /\ \/ arg.infl.n = arg.stem.n
               \/ (arg.infl.n[1] = arg.stem.n[1] /\ arg.stem.n[2] = 0)
            /\ NounFormMatch(arg.stem, arg.infl))

\* C7 (amended): on a noun stem check_match is true exactly when the
\* inflection is a noun inflection, the major class components are equal
\* and, if the class pairs are equal or the inflection's minor component is
\* 0, the form token fits
C7_InflWildcard ==
    (ret.done /\ arg.stem.pos = "N") =>
        (ret.value <=>
            /\ arg.infl.pos = "N"
            /\ arg.infl.n[1] = arg.stem.n[1]
            /\ (arg.infl.n = arg.stem.n \/ arg.infl.n[2] = 0)
                   => (arg.infl.form[3] = arg.stem.form[5] \/ arg.infl.form[3] = "C"))

\* a noun inflection of another, non-zero minor class was accepted on the
\* major class alone
C7_Witness ==
    /\ ret.done
    /\ arg.stem.pos = "N" /\ arg.infl.pos = "N"
    /\ arg.infl.n # arg.stem.n /\ arg.infl.n[2] # 0
    /\ arg.infl.form[3] # arg.stem.form[5] /\ arg.infl.form[3] # "C"
    /\ ret.value

\* C8: no matched stem produced by _check_stems lists an inflection twice
C8_NoRepeatedInflection ==
    ret.done =>
        \A i \in DOMAIN ret.value : \A j \in DOMAIN ret.value[i].entries :
            LET infls == ret.value[i].entries[j].infls
            IN  \A a \in DOMAIN infls : \A b \in DOMAIN infls :
                    a # b => infls[a] # infls[b]

\* C9: for every option _find_forms runs at most twice, first not reduced;
\* the second run is the reduced one and happens only after the first found
\* nothing; the nesting never exhausts the interpreter
C9_AtMostOneReduction ==
    result.status \in {"ok", "raised"} =>
        /\ result.err # "RecursionError"
        /\ \A k \in DOMAIN result.per :
              LET tr == result.per[k]
              IN  /\ Len(tr) <= 2
                  /\ Len(tr) >= 1 => ~tr[1].reduced
                  /\ Len(tr) = 2 => (tr[1].hits = 0 /\ tr[2].reduced)

\* a reduction was tried and its residue matched
C9_Witness ==
    /\ result.status = "ok"
    /\ \E k \in DOMAIN result.per :
          /\ Len(result.per[k]) = 2
          /\ result.per[k][2].hits > 0
          /\ result.per[k][2].base # result.per[k][1].base

\* C10: the list handed to the formatter is the result of the last option
\* of the splitter
C10_LastOptionWins ==
    result.status = "ok" =>
        result.out = OptionResult(LastOf(result.options), Tables, wordlist).out

\* the splitter gave several options and the non-empty result of the first
\* one is not what was handed over
C10_Witness ==
    /\ result.status = "ok"
    /\ Len(result.options) > 1
    /\ OptionResult(result.options[1], Tables, wordlist).out # <<>>
    /\ result.out # OptionResult(result.options[1], Tables, wordlist).out

=============================================================================
